---- MODULE Spec2Model ----
(***************************************************************************)
(* Model of the Bayesian spaced-repetition backend (src/backend/app.py).   *)
(*                                                                         *)
(* Numbers.  The program computes in floats.  Here alpha, beta, updates    *)
(* and masteries are fixed-point integers in units of 1/Milli, and a       *)
(* similarity is an integer number of tenths (SimOne = 1.0).  The          *)
(* embeddings the provider returns are drawn from integer vectors with an  *)
(* integer norm, so that every cosine is an exact number of tenths.        *)
(* math.exp is the table ExpTable, exp(-k/10) rounded to 1/Milli.          *)
(***************************************************************************)
EXTENDS Integers, Sequences, FiniteSets, TLC

VARIABLES
    all_cards,          \* dict card_id -> card record           (app.py:94)
    key_order,          \* insertion order of the keys of all_cards
    similarity_matrix,  \* dict <<id1, id2>> -> similarity       (app.py:97)
    response,           \* the last response of a request served alone
    threads,            \* the requests in flight, one per server thread
    n_requests          \* requests started so far (bounds the model)

vars == <<all_cards, key_order, similarity_matrix, response, threads, n_requests>>

(***************************************************************************)
(* Bounds of the model.                                                    *)
(***************************************************************************)
MaxCards == 3       \* cards the store may hold
MaxBatch == 2       \* cards in one add_cards request
MaxRequests == 4    \* requests served in one behaviour
MaxThreads == 2     \* requests in flight at once

(***************************************************************************)
(* Units.                                                                  *)
(***************************************************************************)
Milli == 10^3       \* 1.0 in the fixed-point unit of alpha, beta, update
SimOne == 10        \* 1.0 in the unit of a similarity (tenths)
NaN == -999999999   \* the float not-a-number (0.0 / 0.0 of numpy scalars)

(***************************************************************************)
(* config.py                                                               *)
(***************************************************************************)
PRIOR_ALPHA == 1 * Milli          \* 1.0
PRIOR_BETA == 1 * Milli           \* 1.0
M_decay == 3
UNCERTAINTY_FACTOR == 5           \* 0.5, in tenths
FactorOne == 10                   \* 1.0 in the unit of UNCERTAINTY_FACTOR

(***************************************************************************)
(* The embedding provider.  The cards a client may send, and the vector    *)
(* the provider returns for a text (a fixed function of the text; the      *)
(* call may also fail, which the actions choose).                          *)
(***************************************************************************)
CardInputs ==
    { [front |-> "2+2", back |-> "4"],
      [front |-> "3+1", back |-> "4"],
      [front |-> "anti", back |-> "2+2"] }

get_embedding(text) ==
    CASE text = "2+24"         -> <<1, 0>>
      [] text = "3+14"         -> <<3, 4>>
      [] text = "anti2+2"      -> <<-1, 0>>
      [] text = ""             -> <<0, 0>>

(***************************************************************************)
(* numpy: dot, linalg.norm; compute_similarity (cosine).                   *)
(***************************************************************************)
dot(e1, e2) == e1[1] * e2[1] + e1[2] * e2[2]

norm(e) == CHOOSE n \in 0..(dot(e, e)) : n * n = dot(e, e)

compute_similarity(embedding1, embedding2) ==
    LET d == norm(embedding1) * norm(embedding2)
    IN  IF d = 0 THEN NaN
        ELSE (dot(embedding1, embedding2) * SimOne) \div d

(***************************************************************************)
(* math.exp on a non-positive number of tenths: exp(-k/10), k = 0..60.     *)
(***************************************************************************)
ExpTable ==
    << 1000, 905, 819, 741, 670, 607, 549, 497, 449, 407,
       368, 333, 301, 273, 247, 223, 202, 183, 165, 150,
       135, 122, 111, 100, 91, 82, 74, 67, 61, 55,
       50, 45, 41, 37, 33, 30, 27, 25, 22, 20,
       18, 17, 15, 14, 12, 11, 10, 9, 8, 7,
       7, 6, 6, 5, 5, 4, 4, 3, 3, 3,
       2 >>

math_exp(x) == ExpTable[1 - x]

\* bug: the similarity itself as the update, which is not positive for
\* unrelated or opposed cards
compute_update_linear(similarity_score) ==
    IF similarity_score = NaN THEN NaN
    ELSE (similarity_score * Milli) \div SimOne

\* bug: the complement of the decay, which is 0 for an identical card
compute_update_complement(similarity_score) ==
    IF similarity_score = NaN THEN NaN
    ELSE Milli - math_exp(-M_decay * (SimOne - similarity_score))

compute_update(similarity_score) ==
    IF similarity_score = NaN THEN NaN
    ELSE math_exp(-M_decay * (SimOne - similarity_score))

\* float addition: not-a-number absorbs
fadd(x, y) == IF x = NaN \/ y = NaN THEN NaN ELSE x + y

(***************************************************************************)
(* Python dict: d[k] = v keeps the position of a key already present and   *)
(* appends a new key; len(d).                                              *)
(***************************************************************************)
EmptyDict == [k \in {} |-> 0]

dict_set(d, k, v) == (k :> v) @@ d

order_set(order, d, k) == IF k \in DOMAIN d THEN order ELSE Append(order, k)

len(d) == Cardinality(DOMAIN d)

(***************************************************************************)
(* add_cards, one card: the id, the entry, the similarity loop.            *)
(***************************************************************************)
next_card_id(cards) == len(cards)

card_text(card) == card.front \o card.back

\* bug: a new card starts with both pseudo-observations counted as successes
new_card_optimistic(card, card_embedding) ==
    [ question  |-> card.front,
      answer    |-> card.back,
      alpha     |-> PRIOR_ALPHA + PRIOR_BETA,
      beta      |-> PRIOR_BETA,
      embedding |-> card_embedding ]

new_card(card, card_embedding) ==
    [ question  |-> card.front,
      answer    |-> card.back,
      alpha     |-> PRIOR_ALPHA,
      beta      |-> PRIOR_BETA,
      embedding |-> card_embedding ]

\* lines 137-139 for one existing card
sim_write(sim, cards, card_id, card_embedding, existing_card_id) ==
    LET similarity_score ==
            compute_similarity(card_embedding, cards[existing_card_id].embedding)
    IN  (<<existing_card_id, card_id>> :> similarity_score)
        @@ (<<card_id, existing_card_id>> :> similarity_score)
        @@ sim

\* bug: the scan leaves out the new card itself, so no self-pair is written
RECURSIVE sim_loop_others(_, _, _, _, _, _)
sim_loop_others(sim, cards, order, card_id, card_embedding, k) ==
    IF k > Len(order) THEN sim
    ELSE sim_loop_others(IF order[k] = card_id THEN sim
                         ELSE sim_write(sim, cards, card_id, card_embedding, order[k]),
                         cards, order, card_id, card_embedding, k + 1)

RECURSIVE sim_loop(_, _, _, _, _, _)
sim_loop(sim, cards, order, card_id, card_embedding, k) ==
    IF k > Len(order) THEN sim
    ELSE sim_loop(sim_write(sim, cards, card_id, card_embedding, order[k]),
                  cards, order, card_id, card_embedding, k + 1)

\* lines 122-139 for one card whose embedding the provider returned
add_card(st, card) ==
    LET card_id == next_card_id(st.cards)
        card_embedding == get_embedding(card_text(card))
        cards1 == dict_set(st.cards, card_id, new_card(card, card_embedding))
        order1 == order_set(st.order, st.cards, card_id)
    IN  [ cards |-> cards1,
          order |-> order1,
          sim   |-> sim_loop(st.sim, cards1, order1, card_id, card_embedding, 1),
          status |-> st.status ]

\* the loop of line 120; the provider fails on card number fail_at (0: never)
RECURSIVE add_loop(_, _, _, _)
add_loop(st, cards, k, fail_at) ==
    IF k > Len(cards) THEN [st EXCEPT !.status = 200]
    ELSE IF k = fail_at THEN [st EXCEPT !.status = 500]
    ELSE add_loop(add_card(st, cards[k]), cards, k + 1, fail_at)

(***************************************************************************)
(* answer: the scan of lines 159-165.                                      *)
(***************************************************************************)
\* lines 161-165 for one card
\* bug: a wrong answer also moves alpha (the branch falls through)
apply_update_both(cards, other_id, similarity_score, is_correct) ==
    LET update == compute_update(similarity_score)
    IN  IF is_correct
        THEN [cards EXCEPT ![other_id].alpha = fadd(@, update)]
        ELSE [cards EXCEPT ![other_id].alpha = fadd(@, update),
                           ![other_id].beta = fadd(@, update)]

apply_update(cards, other_id, similarity_score, is_correct) ==
    LET update == compute_update(similarity_score)
    IN  IF is_correct
        THEN [cards EXCEPT ![other_id].alpha = fadd(@, update)]
        ELSE [cards EXCEPT ![other_id].beta = fadd(@, update)]

\* bug: the scan skips the cards that are not positively related (pruning)
RECURSIVE answer_loop_pruned(_, _, _, _, _, _)
answer_loop_pruned(cards, order, sim, card_id, is_correct, k) ==
    IF k > Len(order) THEN [cards |-> cards, status |-> 200, n_updated |-> k - 1]
    ELSE IF <<card_id, order[k]>> \notin DOMAIN sim
         THEN [cards |-> cards, status |-> 500, n_updated |-> k - 1]
    ELSE answer_loop_pruned(
             IF sim[<<card_id, order[k]>>] <= 0 THEN cards
             ELSE apply_update(cards, order[k], sim[<<card_id, order[k]>>],
                               is_correct),
             order, sim, card_id, is_correct, k + 1)

\* a missing similarity entry raises KeyError and ends the scan where it is
RECURSIVE answer_loop(_, _, _, _, _, _)
answer_loop(cards, order, sim, card_id, is_correct, k) ==
    IF k > Len(order) THEN [cards |-> cards, status |-> 200, n_updated |-> k - 1]
    ELSE IF <<card_id, order[k]>> \notin DOMAIN sim
         THEN [cards |-> cards, status |-> 500, n_updated |-> k - 1]
    ELSE answer_loop(
             apply_update(cards, order[k], sim[<<card_id, order[k]>>], is_correct),
             order, sim, card_id, is_correct, k + 1)

(***************************************************************************)
(* get_next_card_id: min(all_cards.keys(), key=score).                     *)
(***************************************************************************)
\* score(cid) is the fraction score_num / (FactorOne * score_den):
\* ((1 - w) * alpha / total) - w * (1 / total), over the common total
score_num(cards, cid) ==
    (FactorOne - UNCERTAINTY_FACTOR) * cards[cid].alpha - UNCERTAINTY_FACTOR * Milli

score_den(cards, cid) == cards[cid].alpha + cards[cid].beta

is_nan(cards, cid) == cards[cid].alpha = NaN \/ cards[cid].beta = NaN

\* score(c1) < score(c2); a comparison with not-a-number is false
score_less(cards, c1, c2) ==
    /\ ~is_nan(cards, c1)
    /\ ~is_nan(cards, c2)
    /\ score_num(cards, c1) * score_den(cards, c2)
         < score_num(cards, c2) * score_den(cards, c1)

\* bug: a later element of equal score replaces the kept one
RECURSIVE min_scan_last(_, _, _, _)
min_scan_last(cards, order, k, best) ==
    IF k > Len(order) THEN best
    ELSE min_scan_last(cards, order, k + 1,
                       IF ~score_less(cards, best, order[k]) THEN order[k] ELSE best)

\* min keeps the first element and replaces it by a strictly smaller one
RECURSIVE min_scan(_, _, _, _)
min_scan(cards, order, k, best) ==
    IF k > Len(order) THEN best
    ELSE min_scan(cards, order, k + 1,
                  IF score_less(cards, order[k], best) THEN order[k] ELSE best)

get_next_card_id(cards, order) == min_scan(cards, order, 2, order[1])

(***************************************************************************)
(* get_all_cards: one entry per card, in dict order.                       *)
(***************************************************************************)
mastery(card) ==
    IF card.alpha = NaN \/ card.beta = NaN THEN NaN
    ELSE (card.alpha * Milli) \div (card.alpha + card.beta)

card_entry(cards, card_id) ==
    [ id |-> card_id, question |-> cards[card_id].question,
      mastery |-> mastery(cards[card_id]) ]

cards_response(cards, order) ==
    [ k \in 1..Len(order) |-> card_entry(cards, order[k]) ]

(***************************************************************************)
(* State after start-up: both dicts empty, no request served.              *)
(***************************************************************************)
Threads == 1..MaxThreads

NoId == 0 - 1

\* a response, with what the request did: failed_at is the place of the
\* exception of a 500, n_updated the cards an answer request updated
NoResponse ==
    [ op |-> "none", status |-> 0, card_id |-> NoId, is_correct |-> FALSE,
      body |-> <<>>, failed_at |-> "", n_updated |-> 0, snapshot |-> TRUE ]

IdleThread ==
    [ op |-> "idle", pc |-> "idle", status |-> 0, failed_at |-> "",
      cards |-> <<>>, k |-> 0, card_id |-> NoId, is_correct |-> FALSE,
      similarity_score |-> 0, existing_card_id |-> NoId,
      it_pos |-> 0, it_used |-> 0,
      best |-> NoId, best_num |-> 0, best_den |-> 0, best_nan |-> FALSE,
      body |-> <<>>, snaps |-> {} ]

ConcInputs ==
    { c \in CardInputs : c.front \in {"2+2", "anti"} }

ConcBatches == UNION { [1..n -> ConcInputs] : n \in 1..MaxBatch }

Init ==
    /\ all_cards = EmptyDict
    /\ key_order = <<>>
    /\ similarity_matrix = EmptyDict
    /\ response = NoResponse
    /\ threads = [t \in Threads |-> IdleThread]
    /\ n_requests = 0

(***************************************************************************)
(* get_next_card: the response of GET /api/next.                           *)
(***************************************************************************)
\* bug: no test for the empty store, min() of no keys raises ValueError
get_next_card_unguarded(cards, order) ==
    IF len(cards) = 0
    THEN [NoResponse EXCEPT !.op = "next", !.status = 500, !.failed_at = "next_min"]
    ELSE LET next_id == get_next_card_id(cards, order)
         IN  [NoResponse EXCEPT
                !.op = "next", !.status = 200,
                !.body = <<[question |-> cards[next_id].question,
                            answer |-> cards[next_id].answer,
                            id |-> next_id]>>]

get_next_card(cards, order) ==
    IF len(cards) = 0
    THEN [NoResponse EXCEPT !.op = "next", !.status = 400,
                            !.body = <<[error |-> "No cards in the database"]>>]
    ELSE LET next_id == get_next_card_id(cards, order)
         IN  [NoResponse EXCEPT
                !.op = "next", !.status = 200,
                !.body = <<[question |-> cards[next_id].question,
                            answer |-> cards[next_id].answer,
                            id |-> next_id]>>]

Batches == UNION { [1..n -> CardInputs] : n \in 1..MaxBatch }

CardIds == 0..MaxCards

(***************************************************************************)
(* Requests served one at a time: each action is a whole handler.          *)
(***************************************************************************)
Quiet == \A t \in Threads : threads[t].pc = "idle"

\* POST /api/add_cards
AddCards(cards, fail_at) ==
    /\ Quiet
    /\ n_requests < MaxRequests
    /\ len(all_cards) + Len(cards) <= MaxCards
    /\ LET st == add_loop([cards |-> all_cards, order |-> key_order,
                           sim |-> similarity_matrix, status |-> 0],
                          cards, 1, fail_at)
       IN  /\ all_cards' = st.cards
           /\ key_order' = st.order
           /\ similarity_matrix' = st.sim
           /\ response' = [NoResponse EXCEPT !.op = "add_cards",
                                             !.status = st.status,
                                             !.failed_at =
                                                 IF st.status = 200 THEN ""
                                                 ELSE "get_embedding"]
    /\ n_requests' = n_requests + 1
    /\ UNCHANGED threads

\* POST /api/answer
Answer(card_id, is_correct) ==
    /\ Quiet
    /\ n_requests < MaxRequests
    /\ LET r == answer_loop(all_cards, key_order, similarity_matrix,
                            card_id, is_correct, 1)
       IN  /\ all_cards' = r.cards
           /\ response' = [NoResponse EXCEPT !.op = "answer",
                                             !.status = r.status,
                                             !.card_id = card_id,
                                             !.is_correct = is_correct,
                                             !.n_updated = r.n_updated,
                                             !.failed_at =
                                                 IF r.status = 200 THEN ""
                                                 ELSE "ans_lookup"]
    /\ n_requests' = n_requests + 1
    /\ UNCHANGED <<key_order, similarity_matrix, threads>>

\* POST /api/answer with a body that lacks "card_id" or "is_correct":
\* lines 156-157 raise KeyError
AnswerMalformed ==
    /\ Quiet
    /\ n_requests < MaxRequests
    /\ response' = [NoResponse EXCEPT !.op = "answer_malformed", !.status = 500,
                                      !.failed_at = "ans_body"]
    /\ n_requests' = n_requests + 1
    /\ UNCHANGED <<all_cards, key_order, similarity_matrix, threads>>

\* bug: serving a card counts as a failed review of it
GetNextCard_marking ==
    /\ Quiet
    /\ n_requests < MaxRequests
    /\ response' = get_next_card(all_cards, key_order)
    /\ n_requests' = n_requests + 1
    /\ all_cards' = IF all_cards = EmptyDict THEN all_cards
                    ELSE [all_cards EXCEPT
                             ![get_next_card_id(all_cards, key_order)].beta =
                                 fadd(@, Milli)]
    /\ UNCHANGED <<key_order, similarity_matrix, threads>>

\* GET /api/next
GetNextCard ==
    /\ Quiet
    /\ n_requests < MaxRequests
    /\ response' = get_next_card(all_cards, key_order)
    /\ n_requests' = n_requests + 1
    /\ UNCHANGED <<all_cards, key_order, similarity_matrix, threads>>

\* GET /api/all_cards
GetAllCards ==
    /\ Quiet
    /\ n_requests < MaxRequests
    /\ response' = [NoResponse EXCEPT !.op = "all_cards", !.status = 200,
                                      !.body = cards_response(all_cards, key_order)]
    /\ n_requests' = n_requests + 1
    /\ UNCHANGED <<all_cards, key_order, similarity_matrix, threads>>

Next ==
    \/ \E cards \in Batches : \E fail_at \in 0..Len(cards) : AddCards(cards, fail_at)
    \/ \E card_id \in CardIds : \E is_correct \in BOOLEAN : Answer(card_id, is_correct)
    \/ AnswerMalformed
    \/ GetNextCard
    \/ GetAllCards

Spec == Init /\ [][Next]_vars

(***************************************************************************)
(* Requests served by concurrent threads (app.run: the development server  *)
(* serves each request in its own thread, and no handler takes a lock).    *)
(* A step is one access to the shared dicts; a thread may be preempted     *)
(* between any two steps.  The step that ends a request sends its          *)
(* response and frees the thread.                                          *)
(*                                                                         *)
(* A dict iterator remembers the size of the dict when it was made         *)
(* (it_used) and its position (it_pos); next() raises RuntimeError when    *)
(* the size has changed, and StopIteration at the end.                     *)
(***************************************************************************)
MaxConcCards == 2       \* cards the store may hold
MaxConcRequests == 3    \* requests served in one behaviour

\* a request is given the first free thread
CanStart(t) ==
    /\ threads[t].pc = "idle"
    /\ \A u \in Threads : u < t => threads[u].pc # "idle"
    /\ n_requests < MaxConcRequests

size_changed(th, cards) == th.it_used # len(cards)

exhausted(th, order) == th.it_pos >= Len(order)

respond(th, status, failed_at, body) ==
    [ op |-> th.op, status |-> status, card_id |-> th.card_id,
      is_correct |-> th.is_correct, body |-> body, failed_at |-> failed_at,
      n_updated |-> IF th.op = "answer" THEN th.it_pos ELSE 0,
      snapshot |-> th.op = "all_cards" => body \in th.snaps ]

Finish(t, status, failed_at, body) ==
    /\ response' = respond(threads[t], status, failed_at, body)
    /\ threads' = [threads EXCEPT ![t] = IdleThread]

\* every get_all_cards scan in flight sees one more state of the store
\* (snaps is the history of the store's states during the scan)
observe(ths, cards, order) ==
    [ u \in Threads |->
        IF ths[u].pc = "all_scan"
        THEN [ths[u] EXCEPT !.snaps = @ \cup {cards_response(cards, order)}]
        ELSE ths[u] ]

\* the cards the add_cards requests in flight have yet to store
RECURSIVE pending(_)
pending(T) ==
    IF T = {} THEN 0
    ELSE LET t == CHOOSE u \in T : TRUE
             th == threads[t]
             left == IF th.op # "add_cards" THEN 0
                     ELSE IF th.pc \in {"add_id", "add_embed"}
                          THEN Len(th.cards) - th.k + 1
                          ELSE Len(th.cards) - th.k
         IN  left + pending(T \ {t})

\* ---- add_cards ----------------------------------------------------------
\* lines 117-118
StartAddCards(t, cards) ==
    /\ CanStart(t)
    /\ len(all_cards) + pending(Threads) + Len(cards) <= MaxConcCards
    /\ threads' = [threads EXCEPT ![t] =
           [IdleThread EXCEPT !.op = "add_cards", !.pc = "add_id",
                              !.cards = cards, !.k = 1]]
    /\ n_requests' = n_requests + 1
    /\ UNCHANGED <<all_cards, key_order, similarity_matrix, response>>

\* lines 120-124: the next card of the list and its id; or line 142
AddId(t) ==
    /\ threads[t].pc = "add_id"
    /\ IF threads[t].k > Len(threads[t].cards)
       THEN Finish(t, 200, "", <<>>)
       ELSE /\ threads' = [threads EXCEPT ![t] =
                   [@ EXCEPT !.pc = "add_embed",
                             !.card_id = next_card_id(all_cards)]]
            /\ UNCHANGED response
    /\ UNCHANGED <<all_cards, key_order, similarity_matrix, n_requests>>

\* line 125 raises: the provider failed
AddEmbedFail(t) ==
    /\ threads[t].pc = "add_embed"
    /\ Finish(t, 500, "get_embedding", <<>>)
    /\ UNCHANGED <<all_cards, key_order, similarity_matrix, n_requests>>

\* lines 125-132: the provider returned; the entry is stored
AddInsert(t) ==
    /\ threads[t].pc = "add_embed"
    /\ LET th == threads[t]
           card == th.cards[th.k]
           rec == new_card(card, get_embedding(card_text(card)))
       IN  /\ all_cards' = dict_set(all_cards, th.card_id, rec)
           /\ key_order' = order_set(key_order, all_cards, th.card_id)
           /\ threads' = observe([threads EXCEPT ![t].pc = "add_iter"],
                                 all_cards', key_order')
    /\ UNCHANGED <<similarity_matrix, response, n_requests>>

\* line 136: all_cards.items() and its iterator
AddIter(t) ==
    /\ threads[t].pc = "add_iter"
    /\ threads' = [threads EXCEPT ![t] =
           [@ EXCEPT !.pc = "add_sims", !.it_pos = 0, !.it_used = len(all_cards)]]
    /\ UNCHANGED <<all_cards, key_order, similarity_matrix, response, n_requests>>

\* lines 136-138: the next item, its similarity, the first store
AddSim(t) ==
    /\ threads[t].pc = "add_sims"
    /\ LET th == threads[t]
           card == th.cards[th.k]
           card_embedding == get_embedding(card_text(card))
       IN  IF size_changed(th, all_cards)
           THEN /\ Finish(t, 500, "add_sims", <<>>)
                /\ UNCHANGED similarity_matrix
           ELSE IF exhausted(th, key_order)
           THEN /\ threads' = [threads EXCEPT ![t] =
                       [@ EXCEPT !.pc = "add_id", !.k = @ + 1, !.card_id = NoId,
                                 !.it_pos = 0, !.it_used = 0]]
                /\ UNCHANGED <<similarity_matrix, response>>
           ELSE LET existing_card_id == key_order[th.it_pos + 1]
                    similarity_score ==
                        compute_similarity(card_embedding,
                                           all_cards[existing_card_id].embedding)
                IN  /\ similarity_matrix' =
                          dict_set(similarity_matrix,
                                   <<th.card_id, existing_card_id>>, similarity_score)
                    /\ threads' = [threads EXCEPT ![t] =
                          [@ EXCEPT !.pc = "add_sims2", !.it_pos = @ + 1,
                                    !.existing_card_id = existing_card_id,
                                    !.similarity_score = similarity_score]]
                    /\ UNCHANGED response
    /\ UNCHANGED <<all_cards, key_order, n_requests>>

\* line 139: the second store
AddSim2(t) ==
    /\ threads[t].pc = "add_sims2"
    /\ similarity_matrix' =
           dict_set(similarity_matrix,
                    <<threads[t].existing_card_id, threads[t].card_id>>,
                    threads[t].similarity_score)
    /\ threads' = [threads EXCEPT ![t] =
           [@ EXCEPT !.pc = "add_sims", !.existing_card_id = NoId,
                     !.similarity_score = 0]]
    /\ UNCHANGED <<all_cards, key_order, response, n_requests>>

\* ---- answer -------------------------------------------------------------
\* lines 155-159: the body is read, the iterator over all_cards is made
StartAnswer(t, card_id, is_correct) ==
    /\ CanStart(t)
    /\ threads' = [threads EXCEPT ![t] =
           [IdleThread EXCEPT !.op = "answer", !.pc = "ans_scan",
                              !.card_id = card_id, !.is_correct = is_correct,
                              !.it_pos = 0, !.it_used = len(all_cards)]]
    /\ n_requests' = n_requests + 1
    /\ UNCHANGED <<all_cards, key_order, similarity_matrix, response>>

\* lines 159-165 for the next card; line 167 at the end
AnswerStep(t) ==
    /\ threads[t].pc = "ans_scan"
    /\ LET th == threads[t]
       IN  IF size_changed(th, all_cards)
           THEN /\ Finish(t, 500, "ans_iter", <<>>)
                /\ UNCHANGED all_cards
           ELSE IF exhausted(th, key_order)
           THEN /\ Finish(t, 200, "", <<>>)
                /\ UNCHANGED all_cards
           ELSE LET other_id == key_order[th.it_pos + 1]
                IN  IF <<th.card_id, other_id>> \notin DOMAIN similarity_matrix
                    THEN /\ Finish(t, 500, "ans_lookup", <<>>)
                         /\ UNCHANGED all_cards
                    ELSE /\ all_cards' =
                              apply_update(all_cards, other_id,
                                  similarity_matrix[<<th.card_id, other_id>>],
                                  th.is_correct)
                         /\ threads' = observe(
                                [threads EXCEPT ![t].it_pos = @ + 1],
                                all_cards', key_order)
                         /\ UNCHANGED response
    /\ UNCHANGED <<key_order, similarity_matrix, n_requests>>

\* ---- next ---------------------------------------------------------------
\* lines 205-206, or the keys iterator of line 195
StartNext(t) ==
    /\ CanStart(t)
    /\ IF len(all_cards) = 0
       THEN /\ response' = [NoResponse EXCEPT !.op = "next", !.status = 400,
                     !.body = <<[error |-> "No cards in the database"]>>]
            /\ UNCHANGED threads
       ELSE /\ threads' = [threads EXCEPT ![t] =
                   [IdleThread EXCEPT !.op = "next", !.pc = "next_scan",
                                      !.it_pos = 0, !.it_used = len(all_cards)]]
            /\ UNCHANGED response
    /\ n_requests' = n_requests + 1
    /\ UNCHANGED <<all_cards, key_order, similarity_matrix>>

\* min(): the next key and its score; lines 209-211 at the end
NextStep(t) ==
    /\ threads[t].pc = "next_scan"
    /\ LET th == threads[t]
       IN  IF size_changed(th, all_cards)
           THEN Finish(t, 500, "next_iter", <<>>)
           ELSE IF exhausted(th, key_order)
           THEN Finish(t, 200, "",
                       <<[question |-> all_cards[th.best].question,
                          answer |-> all_cards[th.best].answer,
                          id |-> th.best]>>)
           ELSE LET cid == key_order[th.it_pos + 1]
                    num == score_num(all_cards, cid)
                    den == score_den(all_cards, cid)
                    nan == is_nan(all_cards, cid)
                    less == /\ ~nan
                            /\ ~th.best_nan
                            /\ num * th.best_den < th.best_num * den
                IN  /\ threads' = [threads EXCEPT ![t] =
                          IF th.it_pos = 0 \/ less
                          THEN [@ EXCEPT !.it_pos = @ + 1, !.best = cid,
                                         !.best_num = num, !.best_den = den,
                                         !.best_nan = nan]
                          ELSE [@ EXCEPT !.it_pos = @ + 1]]
                    /\ UNCHANGED response
    /\ UNCHANGED <<all_cards, key_order, similarity_matrix, n_requests>>

\* ---- all_cards ----------------------------------------------------------
\* lines 230-231: the items iterator
StartAllCards(t) ==
    /\ CanStart(t)
    /\ threads' = [threads EXCEPT ![t] =
           [IdleThread EXCEPT !.op = "all_cards", !.pc = "all_scan",
                              !.it_pos = 0, !.it_used = len(all_cards),
                              !.snaps = {cards_response(all_cards, key_order)}]]
    /\ n_requests' = n_requests + 1
    /\ UNCHANGED <<all_cards, key_order, similarity_matrix, response>>

\* lines 231-236 for the next card; line 237 at the end
AllCardsStep(t) ==
    /\ threads[t].pc = "all_scan"
    /\ LET th == threads[t]
       IN  IF size_changed(th, all_cards)
           THEN Finish(t, 500, "all_iter", <<>>)
           ELSE IF exhausted(th, key_order)
           THEN Finish(t, 200, "", th.body)
           ELSE /\ threads' = [threads EXCEPT ![t] =
                      [@ EXCEPT !.it_pos = @ + 1,
                                !.body = Append(@, card_entry(all_cards,
                                                     key_order[th.it_pos + 1]))]]
                /\ UNCHANGED response
    /\ UNCHANGED <<all_cards, key_order, similarity_matrix, n_requests>>

NextConc ==
    \E t \in Threads :
        \/ \E cards \in ConcBatches : StartAddCards(t, cards)
        \/ AddId(t)
        \/ AddEmbedFail(t)
        \/ AddInsert(t)
        \/ AddIter(t)
        \/ AddSim(t)
        \/ AddSim2(t)
        \/ \E card_id \in 0..MaxConcCards : \E is_correct \in BOOLEAN :
               StartAnswer(t, card_id, is_correct)
        \/ AnswerStep(t)
        \/ StartNext(t)
        \/ NextStep(t)
        \/ StartAllCards(t)
        \/ AllCardsStep(t)

SpecConc == Init /\ [][NextConc]_vars

(***************************************************************************)
(* Properties of requests served one at a time (Spec).                     *)
(***************************************************************************)
Known(card_id) == card_id \in DOMAIN all_cards

\* C1: a completed answer(card_id, is_correct) on a known card adds
\* exp(-decay * (1 - sim(card_id, other))) to the alpha of every card of the
\* store when is_correct, to the beta of every card otherwise; no card is
\* skipped.
C1_AnswerUpdatesEveryCard ==
    [][\A card_id \in CardIds : \A is_correct \in BOOLEAN :
          (Answer(card_id, is_correct) /\ Known(card_id) /\ response'.status = 200)
          => \A other \in DOMAIN all_cards :
                LET update == math_exp(-M_decay *
                                  (SimOne - similarity_matrix[<<card_id, other>>]))
                IN  IF is_correct
                    THEN all_cards'[other].alpha = all_cards[other].alpha + update
                    ELSE all_cards'[other].beta = all_cards[other].beta + update
      ]_vars

\* an answer on a known card completed, and a card opposed to it was nudged
C1_Witness ==
    /\ response.op = "answer"
    /\ response.status = 200
    /\ Known(response.card_id)
    /\ \E other \in DOMAIN all_cards :
          /\ other # response.card_id
          /\ similarity_matrix[<<response.card_id, other>>] < 0
          /\ all_cards[other].alpha + all_cards[other].beta
               > PRIOR_ALPHA + PRIOR_BETA

\* score(c1) <= score(c2) for score = (1 - w) * alpha / (alpha + beta)
\*                                    - w * (1 / (alpha + beta))
C2_ScoreLeq(c1, c2) ==
    LET a1 == all_cards[c1].alpha
        t1 == all_cards[c1].alpha + all_cards[c1].beta
        a2 == all_cards[c2].alpha
        t2 == all_cards[c2].alpha + all_cards[c2].beta
    IN  ((FactorOne - UNCERTAINTY_FACTOR) * a1 - UNCERTAINTY_FACTOR * Milli) * t2
          <= ((FactorOne - UNCERTAINTY_FACTOR) * a2 - UNCERTAINTY_FACTOR * Milli) * t1

\* C2: on a non-empty store next_card returns the id of a card of minimal
\* score, the lowest id among the cards of minimal score.
C2_NextCardIsLowestMinimum ==
    (response.op = "next" /\ response.status = 200)
    => LET id == response.body[1].id
       IN  /\ Known(id)
           /\ \A c \in DOMAIN all_cards :
                 /\ C2_ScoreLeq(id, c)
                 /\ C2_ScoreLeq(c, id) => id <= c

\* next_card returned a card that is not the first, tied with a later one
C2_Witness ==
    /\ response.op = "next"
    /\ response.status = 200
    /\ response.body[1].id > 0
    /\ \E c \in DOMAIN all_cards :
          /\ c > response.body[1].id
          /\ C2_ScoreLeq(c, response.body[1].id)

\* C3: an answer with a card_id that is not in the store never reports
\* success, whatever the store, the empty store included.
C3_UnknownIdNeverSucceeds ==
    (response.op = "answer" /\ ~Known(response.card_id))
    => response.status # 200

\* C4: next_card on the empty store answers with the "no cards" error
\* response and changes neither dict; on a store with a card it never
\* answers with that error.
C4_EmptyStoreError ==
    [][GetNextCard =>
          /\ len(all_cards) = 0 =>
                /\ response'.status = 400
                /\ response'.body = <<[error |-> "No cards in the database"]>>
          /\ len(all_cards) > 0 => response'.status = 200
          /\ UNCHANGED <<all_cards, key_order, similarity_matrix>>
      ]_vars

\* next_card was asked of the empty store
C4_Witness ==
    /\ response.op = "next"
    /\ response.status = 400
    /\ len(all_cards) = 0

C5_AddNeverReusesAnId ==
    [][\A t \in Threads :
          AddInsert(t) =>
              /\ ~Known(threads[t].card_id)
              /\ \A c \in DOMAIN all_cards : c < threads[t].card_id
      ]_vars

Reading(t) == threads[t].pc \in {"ans_scan", "next_scan", "all_scan"}

\* every pair of cards of the store has its similarity
PairsPresent ==
    \A i, j \in DOMAIN all_cards : <<i, j>> \in DOMAIN similarity_matrix

\* every similarity is of two cards of the store
PairsKnown ==
    \A p \in DOMAIN similarity_matrix : Known(p[1]) /\ Known(p[2])

\* C6: while an answer, next_card or all_cards request is reading, no card
\* of the store lacks a similarity to a card of the store, and no
\* similarity names an id that is not in the store.
C6_ReadersSeeWholeCards ==
    (\E t \in Threads : Reading(t)) => (PairsPresent /\ PairsKnown)

\* C7: the list all_cards returns is the list of one state of the store
\* during the request: all cards before an answer, or all cards after it.
C7_AllCardsIsASnapshot ==
    (response.op = "all_cards" /\ response.status = 200) => response.snapshot

\* the card of id card_id has its entry and all its similarities
Registered(card_id) ==
    /\ Known(card_id)
    /\ \A j \in DOMAIN all_cards :
          /\ <<card_id, j>> \in DOMAIN similarity_matrix
          /\ <<j, card_id>> \in DOMAIN similarity_matrix

\* C8: when add_cards fails on a card, either the card is fully registered
\* or the store and the matrix are as before the card was attempted.
C8_AddIsAllOrNothing ==
    [][\A t \in Threads :
          /\ AddEmbedFail(t) => UNCHANGED <<all_cards, key_order, similarity_matrix>>
          /\ (AddSim(t) /\ response'.status = 500 /\ threads'[t].pc = "idle")
                => Registered(threads[t].card_id)'
      ]_vars

\* C9: an answer request that fails has updated no card.
C9_FailedAnswerUpdatesNothing ==
    (response.op = "answer" /\ response.status = 500) => response.n_updated = 0

\* C11: for all cards i and j of the store, the similarity matrix holds
\* the same value for (i, j) and for (j, i).
C11_SimilarityIsSymmetric ==
    \A i, j \in DOMAIN all_cards :
        (<<i, j>> \in DOMAIN similarity_matrix /\ <<j, i>> \in DOMAIN similarity_matrix)
        => similarity_matrix[<<i, j>>] = similarity_matrix[<<j, i>>]

\* C12: a similarity value, once written, is never changed nor removed.
C12_SimilarityIsNeverRewritten ==
    [][\A p \in DOMAIN similarity_matrix :
          /\ p \in DOMAIN similarity_matrix'
          /\ similarity_matrix'[p] = similarity_matrix[p]
      ]_vars

\* C19: no step removes a card or decreases the alpha or the beta of a card,
\* and a step of add_cards changes the alpha and beta of no card already
\* there.
C19_ParametersNeverDecrease ==
    [][/\ \A c \in DOMAIN all_cards :
             /\ c \in DOMAIN all_cards'
             /\ all_cards'[c].alpha >= all_cards[c].alpha
             /\ all_cards'[c].beta >= all_cards[c].beta
       /\ \A t \in Threads :
             AddInsert(t) =>
                 \A c \in DOMAIN all_cards :
                     /\ all_cards'[c].alpha = all_cards[c].alpha
                     /\ all_cards'[c].beta = all_cards[c].beta
      ]_vars

\* C13: a successful add_cards of n cards on a store of m cards leaves m + n
\* cards; every new card has alpha = PRIOR_ALPHA and beta = PRIOR_BETA and
\* all_cards reports PRIOR_ALPHA / (PRIOR_ALPHA + PRIOR_BETA) as its mastery,
\* whatever the parameters of the cards already there, which stay.
\* (A request succeeds when the provider fails at no card: fail_at = 0.)
C13_AddGrowsByNWithPriors ==
    [][\A cards \in Batches :
          (response'.op = "add_cards" /\ response'.status = 200
               /\ len(all_cards) + Len(cards) <= MaxCards
               /\ AddCards(cards, 0))
          => /\ len(all_cards') = len(all_cards) + Len(cards)
             /\ DOMAIN all_cards \subseteq DOMAIN all_cards'
             /\ \A c \in DOMAIN all_cards : all_cards'[c] = all_cards[c]
             /\ \A c \in DOMAIN all_cards' \ DOMAIN all_cards :
                   /\ all_cards'[c].alpha = PRIOR_ALPHA
                   /\ all_cards'[c].beta = PRIOR_BETA
             /\ LET body == cards_response(all_cards', key_order')
                IN  \A k \in 1..Len(body) :
                       body[k].id \notin DOMAIN all_cards
                       => body[k].mastery =
                              (PRIOR_ALPHA * Milli) \div (PRIOR_ALPHA + PRIOR_BETA)
      ]_vars

\* cards were added to a store whose card had already moved off the priors
C13_Witness ==
    /\ response.op = "add_cards"
    /\ response.status = 200
    /\ \E c, d \in DOMAIN all_cards :
          /\ all_cards[c].alpha > PRIOR_ALPHA
          /\ all_cards[d].alpha = PRIOR_ALPHA
          /\ all_cards[d].beta = PRIOR_BETA

\* C14: next_card and all_cards leave the store and the matrix as they were,
\* and a call that follows a call of the same kind returns the same response.
C14_ReadsAreIdempotent ==
    [][/\ (GetNextCard \/ GetAllCards)
              => UNCHANGED <<all_cards, key_order, similarity_matrix>>
       /\ (GetNextCard /\ response.op = "next") => response' = response
       /\ (GetAllCards /\ response.op = "all_cards") => response' = response
      ]_vars

\* next_card answered on a store of several cards after reviews were recorded
C14_Witness ==
    /\ response.op = "next"
    /\ response.status = 200
    /\ len(all_cards) >= 2
    /\ n_requests >= 4
    /\ \E c \in DOMAIN all_cards : all_cards[c].beta > PRIOR_BETA

\* C17: when requests are served one at a time, the keys of the matrix are
\* exactly the ordered pairs of ids of the store, self-pairs included, and an
\* answer on a known id completes.
C17_MatrixCoversAllPairs ==
    /\ DOMAIN similarity_matrix =
           { <<i, j>> : i \in DOMAIN all_cards, j \in DOMAIN all_cards }
    /\ (response.op = "answer" /\ Known(response.card_id))
           => response.status = 200

\* an answer completed on a store of three cards
C17_Witness ==
    /\ len(all_cards) >= 3
    /\ response.op = "answer"
    /\ response.status = 200
    /\ Known(response.card_id)

\* C18: a completed answer keeps the ids, each card's question, answer and
\* embedding, and the whole matrix; when is_correct it changes no beta,
\* otherwise no alpha.
C18_AnswerFrame ==
    [][\A card_id \in CardIds : \A is_correct \in BOOLEAN :
          (Answer(card_id, is_correct) /\ response'.status = 200)
          => /\ DOMAIN all_cards' = DOMAIN all_cards
             /\ key_order' = key_order
             /\ similarity_matrix' = similarity_matrix
             /\ \A c \in DOMAIN all_cards :
                   /\ all_cards'[c].question = all_cards[c].question
                   /\ all_cards'[c].answer = all_cards[c].answer
                   /\ all_cards'[c].embedding = all_cards[c].embedding
                   /\ is_correct => all_cards'[c].beta = all_cards[c].beta
                   /\ ~is_correct => all_cards'[c].alpha = all_cards[c].alpha
      ]_vars

\* a wrong answer was recorded on a store of several cards: beta moved, alpha
\* did not
C18_Witness ==
    /\ response.op = "answer"
    /\ response.status = 200
    /\ ~response.is_correct
    /\ len(all_cards) >= 2
    /\ \A c \in DOMAIN all_cards :
          all_cards[c].alpha = PRIOR_ALPHA /\ all_cards[c].beta > PRIOR_BETA

(***************************************************************************)
(* Requests served one at a time when the provider may return an all-zero  *)
(* embedding for a card.                                                   *)
(***************************************************************************)
DegenerateCard == [front |-> "", back |-> ""]

DegInputs == { c \in CardInputs : c.front = "2+2" } \cup { DegenerateCard }

DegBatches == UNION { [1..n -> DegInputs] : n \in 1..MaxBatch }

NextDegen ==
    \/ \E cards \in DegBatches : \E fail_at \in 0..Len(cards) : AddCards(cards, fail_at)
    \/ \E card_id \in CardIds : \E is_correct \in BOOLEAN : Answer(card_id, is_correct)
    \/ AnswerMalformed
    \/ GetNextCard
    \/ GetAllCards

SpecDegen == Init /\ [][NextDegen]_vars

\* C15: no similarity stored in the matrix is not-a-number, and no alpha or
\* beta of a card is, also when a card with a zero-norm embedding was added
\* and answers followed.
C15_NoNaNStoredOrPropagated ==
    /\ \A p \in DOMAIN similarity_matrix : similarity_matrix[p] # NaN
    /\ \A c \in DOMAIN all_cards :
          all_cards[c].alpha # NaN /\ all_cards[c].beta # NaN

(***************************************************************************)
(* compute_update applied to similarities drawn from [-1, 1] in tenths;    *)
(* the calls made so far are kept in response.body.                        *)
(***************************************************************************)
MaxCalls == 2

Similarities == (0 - SimOne)..SimOne

ComputeUpdate(similarity_score) ==
    /\ Len(response.body) < MaxCalls
    /\ response' = [NoResponse EXCEPT
                       !.op = "compute_update",
                       !.body = Append(response.body,
                                       [similarity_score |-> similarity_score,
                                        update |-> compute_update(similarity_score)])]
    /\ UNCHANGED <<all_cards, key_order, similarity_matrix, threads, n_requests>>

NextUpdate == \E similarity_score \in Similarities : ComputeUpdate(similarity_score)

SpecUpdate == Init /\ [][NextUpdate]_vars

\* C16: for every similarity in [-1, 1], with the decay of config.py,
\* compute_update(similarity) is greater than 0 and at most 1, and
\* compute_update(1) is exactly 1.
C16_UpdateInUnitInterval ==
    response.op = "compute_update" =>
        \A k \in 1..Len(response.body) :
            /\ response.body[k].update > 0
            /\ response.body[k].update <= Milli
            /\ response.body[k].similarity_score = SimOne
                   => response.body[k].update = Milli

\* compute_update was applied to both ends of the range
C16_Witness ==
    /\ response.op = "compute_update"
    /\ \E j, k \in 1..Len(response.body) :
          /\ response.body[j].similarity_score = 0 - SimOne
          /\ response.body[k].similarity_score = SimOne

====
